---- MODULE Spec2Model ----
(***************************************************************************)
(* A model of rust-todo (src/src/main.rs): the MapTaskRepository store,    *)
(* the prompt-action loop of main/execute_action, and load_tasks and       *)
(* save_tasks on tasks.json.                                               *)
(***************************************************************************)
EXTENDS Integers, Sequences, FiniteSets, Bags, TLC

\* ------------------------------------------------------------------ bounds
\* Number of distinct Uuids the model can hand out (caps the number of adds).
MaxIds == 3
\* Longest JSON array found in tasks.json at startup.
MaxFileLen == 2

\* ------------------------------------------------------------- data model
\* enum Priority { High, Medium, Low }: derive(PartialOrd, Ord) orders the
\* variants by discriminant.
High == 0
Medium == 1
Low == 2
Priority == {High, Medium, Low}
\* Priority::VALUES, the options of the priority prompt
PriorityVALUES == <<High, Medium, Low>>

\* Names a user types at the "Task: " prompt (Text accepts the empty string).
Names == {"", "Buy milk"}
\* struct Task { name, priority }
Task(n, p) == [name |-> n, priority |-> p]
Tasks == {Task(n, p) : n \in Names, p \in Priority}

\* Uuid values
Ids == 1..MaxIds

\* struct KeyedTask(Uuid, Task): field .0 is kt[1], field .1 is kt[2]
KeyedTask(id, t) == <<id, t>>

\* Option<T>
None == [some |-> FALSE]
Some(x) == [some |-> TRUE, val |-> x]

\* enum Action { Quit, List, Add, Remove, Unknown(String) }
Quit == [kind |-> "Quit"]
List == [kind |-> "List"]
Add == [kind |-> "Add"]
Remove == [kind |-> "Remove"]
Unknown(msg) == [kind |-> "Unknown", msg |-> msg]
\* Action::VALUES, the options of the action prompt
ActionVALUES == <<Quit, List, Add, Remove>>
\* err.to_string() of a failed prompt
PromptErrors == {"Operation was canceled by the user"}

VARIABLES
    pc,      \* position in main: "init", "loop", "exit", "done", "error"
    file,    \* tasks.json
    tm,      \* MapTaskRepository.tm: the HashMap<Uuid, Task>
    issued,  \* every Uuid that Uuid::new_v4 has returned so far
    state,   \* curr_state: State { should_continue, task, action }
    cycle,   \* what the last loop cycle did and showed (prompts, output), and
             \* whether it was the first cycle of the run
    call     \* the last TaskRepository call of a direct client of the trait, with
             \* the number of add_task calls so far and whether remove_task was called

vars == <<pc, file, tm, issued, state, cycle, call>>

\* ------------------------------------------------------------ collections
\* HashMap::insert: the entry for k is created, or overwritten when present
MapInsert(m, k, v) == [x \in DOMAIN m \cup {k} |-> IF x = k THEN v ELSE m[x]]
\* HashMap::remove: the entry for k is dropped, nothing happens when absent
MapRemove(m, k) == [x \in DOMAIN m \ {k} |-> m[x]]
\* HashMap::new
EmptyMap == [x \in {} |-> x]

\* All orders in which a HashMap can iterate over the keys in S.
RECURSIVE Orders(_)
Orders(S) ==
    IF S = {} THEN {<<>>}
    ELSE UNION {{<<x>> \o rest : rest \in Orders(S \ {x})} : x \in S}

\* The elements of a sequence as a bag
RECURSIVE SeqToBag(_)
SeqToBag(s) ==
    IF s = <<>> THEN EmptyBag ELSE (Head(s) :> 1) (+) SeqToBag(Tail(s))

\* The tasks of a store as a bag of (name, priority) values
RECURSIVE MapToBag(_)
MapToBag(m) ==
    IF DOMAIN m = {} THEN EmptyBag
    ELSE LET k == CHOOSE x \in DOMAIN m : TRUE
         IN (m[k] :> 1) (+) MapToBag(MapRemove(m, k))

\* ------------------------------------------------- MapTaskRepository
\* The methods of impl TaskRepository for MapTaskRepository carry the prefix
\* tr_: the program also has free functions add_task and list_tasks.
\* Uuid::new_v4(): a version-4 Uuid, one that no earlier call has returned.
\* The program only stores Uuids and compares them for equality, so the model
\* names them in the order of issue: the n-th call returns n. (The order a
\* HashMap iterates in does depend on the value; Orders covers every order.)
new_v4(used) == {id \in Ids \ used : \A other \in Ids \ used : id <= other}

\* add_task: every (store, issued set, returned Uuid) the call can end in
\* (faulty variant: the key is the first Uuid that is free in the map)
AddTaskMutReuse(m, used, t) ==
    {[tm |-> MapInsert(m, id, t), issued |-> used \cup {id}, id |-> id] :
        id \in new_v4(DOMAIN m)}
\* (faulty variant: the key is the number of entries plus one)
AddTaskMutLenKey(m, used, t) ==
    {[tm |-> MapInsert(m, id, t), issued |-> used \cup {id}, id |-> id] :
        id \in {Cardinality(DOMAIN m) + 1} \cap Ids}
tr_add_task(m, used, t) ==
    {[tm |-> MapInsert(m, uuid, t), issued |-> used \cup {uuid}, id |-> uuid] :
        uuid \in new_v4(used)}

\* get_task
tr_get_task(m, id) == IF id \in DOMAIN m THEN Some(m[id]) ELSE None

\* ids: the keys in iteration order, every order the map can iterate in
tr_ids(m) == Orders(DOMAIN m)

\* get_all: the (Uuid, Task) pairs in iteration order
tr_get_all(m) ==
    {[i \in 1..Len(o) |-> KeyedTask(o[i], m[o[i]])] : o \in Orders(DOMAIN m)}

\* remove_task: removes by the Uuid of the KeyedTask only
\* (faulty variant: also drops every entry that holds an equal task)
RemoveTaskMutByValue(m, kt) ==
    [x \in {y \in DOMAIN m : y # kt[1] /\ m[y] # kt[2]} |-> m[x]]
\* (faulty variant: drops some other entry when the Uuid is absent)
RemoveTaskMutPop(m, kt) ==
    IF kt[1] \in DOMAIN m \/ DOMAIN m = {} THEN MapRemove(m, kt[1])
    ELSE MapRemove(m, CHOOSE x \in DOMAIN m : TRUE)
tr_remove_task(m, kt) == MapRemove(m, kt[1])

\* ---------------------------------------------------------- list_tasks
\* The position of kt in the sorted prefix: slice::sort_by_key is stable, so
\* kt goes behind every element whose key is not greater than its own.
RECURSIVE InsertByKey(_, _)
InsertByKey(sorted, kt) ==
    IF sorted = <<>> THEN <<kt>>
    ELSE IF Head(sorted)[2].priority <= kt[2].priority
         THEN <<Head(sorted)>> \o InsertByKey(Tail(sorted), kt)
         ELSE <<kt>> \o sorted

\* all.sort_by_key(|kt| kt.1.priority.clone())
RECURSIVE sort_by_key(_)
sort_by_key(all) ==
    IF all = <<>> THEN <<>>
    ELSE InsertByKey(sort_by_key(SubSeq(all, 1, Len(all) - 1)), all[Len(all)])

\* list_tasks: the tasks print_task prints, in order, for one iteration
\* order `all` of the store
\* (faulty variant: prints in iteration order, without the sort)
ListTasksMutUnsorted(all) == [i \in 1..Len(all) |-> all[i][2]]
list_tasks(all) ==
    LET sorted == sort_by_key(all)
    IN [i \in 1..Len(sorted) |-> sorted[i][2]]

\* ---------------------------------------------------------- tasks.json
\* serde's representation of a unit variant: the variant's name
PriorityToJson(p) ==
    CASE p = High -> "High" [] p = Medium -> "Medium" [] p = Low -> "Low"
JsonPriorities == {"High", "Medium", "Low", "Urgent"}
\* Deserialize for Priority: an unknown variant name is an error
PriorityFromJson(s) ==
    CASE s = "High" -> Some(High)
      [] s = "Medium" -> Some(Medium)
      [] s = "Low" -> Some(Low)
      [] OTHER -> None

\* Serialize for Task: {"name": ..., "priority": ...}
TaskToJson(t) == [name |-> t.name, priority |-> PriorityToJson(t.priority)]
\* Deserialize for Task
TaskFromJson(o) ==
    LET p == PriorityFromJson(o.priority)
    IN IF p.some THEN Some(Task(o.name, p.val)) ELSE None

\* The objects of the arrays tried as startup content of the file
FileNames == {"Buy milk"}
JsonObjects == [name : FileNames, priority : JsonPriorities]
\* The states of the file at PATH: absent, unreadable (read_to_string fails),
\* text that is no JSON array of objects, or a JSON array of objects.
Missing == [kind |-> "Missing"]
Unreadable == [kind |-> "Unreadable"]
Garbage == [kind |-> "Garbage"]
JsonArray(objs) == [kind |-> "Array", items |-> objs]
FileStates ==
    {Missing, Unreadable, Garbage}
    \cup {JsonArray(a) : a \in UNION {[1..n -> JsonObjects] : n \in 0..MaxFileLen}}

\* serde_json::from_str::<Vec<Task>>: the tasks, or None for an error
from_str(f) ==
    IF f.kind # "Array" THEN None
    ELSE IF \E i \in 1..Len(f.items) : ~TaskFromJson(f.items[i]).some THEN None
    ELSE Some([i \in 1..Len(f.items) |-> TaskFromJson(f.items[i]).val])

\* for t in tasks { tr.add_task(t) }: every store the adds can end in
RECURSIVE AddAll(_, _, _)
AddAll(m, used, tasks) ==
    IF tasks = <<>> THEN {[tm |-> m, issued |-> used]}
    ELSE UNION {AddAll(r.tm, r.issued, Tail(tasks)) : r \in tr_add_task(m, used, Head(tasks))}

DefaultTasks == <<Task("Learn Rust", High), Task("Learn NeoVim", Medium)>>

\* load_tasks: every outcome [ok, tm, issued]; ok is FALSE for Err
\* (faulty variant: the default tasks are added whatever was loaded)
LoadTasksMutAlwaysSeed(m, used, f) ==
    LET read == f.kind \in {"Array", "Garbage"}
        parsed == from_str(f)
        loaded == IF read THEN AddAll(m, used, parsed.val) ELSE {[tm |-> m, issued |-> used]}
    IN IF read /\ ~parsed.some THEN {[ok |-> FALSE, tm |-> m, issued |-> used]}
       ELSE UNION {{[ok |-> TRUE, tm |-> s.tm, issued |-> s.issued] :
                        s \in AddAll(r.tm, r.issued, DefaultTasks)} : r \in loaded}
\* (faulty variant: text that does not parse is read as an empty list)
LoadTasksMutIgnoreMalformed(m, used, f) ==
    LET parsed == from_str(f)
        loaded == IF parsed.some THEN AddAll(m, used, parsed.val)
                  ELSE {[tm |-> m, issued |-> used]}
    IN UNION {IF DOMAIN r.tm = {}
              THEN {[ok |-> TRUE, tm |-> s.tm, issued |-> s.issued] :
                       s \in AddAll(r.tm, r.issued, DefaultTasks)}
              ELSE {[ok |-> TRUE, tm |-> r.tm, issued |-> r.issued]} : r \in loaded}
load_tasks(m, used, f) ==
    LET read == f.kind \in {"Array", "Garbage"}
        parsed == from_str(f)
        loaded == IF read THEN AddAll(m, used, parsed.val) ELSE {[tm |-> m, issued |-> used]}
    IN IF read /\ ~parsed.some THEN {[ok |-> FALSE, tm |-> m, issued |-> used]}
       ELSE UNION {IF DOMAIN r.tm = {}
                   THEN {[ok |-> TRUE, tm |-> s.tm, issued |-> s.issued] :
                            s \in AddAll(r.tm, r.issued, DefaultTasks)}
                   ELSE {[ok |-> TRUE, tm |-> r.tm, issued |-> r.issued]} : r \in loaded}

\* save_tasks: the text written for one iteration order `all` of the store
\* (faulty variant: writes each distinct task once)
SaveTasksMutDedup(all) ==
    LET s == {TaskToJson(all[i][2]) : i \in 1..Len(all)}
    IN JsonArray(CHOOSE o \in Orders(s) : TRUE)
save_tasks(all) == JsonArray([i \in 1..Len(all) |-> TaskToJson(all[i][2])])

\* ------------------------------------------------------- the action loop
\* display_actions: the chosen option, or Unknown(err.to_string())
display_actions ==
    {ActionVALUES[i] : i \in 1..Len(ActionVALUES)} \cup {Unknown(e) : e \in PromptErrors}

\* The prompts of add_task: text is the result of the "Task: " prompt, prio
\* that of the "Priority: " prompt, which is shown only after a name was read.
AddPrompts ==
    {[text |-> None, prio |-> None]}
    \cup {[text |-> Some(n), prio |-> None] : n \in Names}
    \cup {[text |-> Some(n), prio |-> Some(PriorityVALUES[i])] :
            n \in Names, i \in 1..Len(PriorityVALUES)}

\* add_task (the free function): every (store, issued set) it can end in
\* (faulty variant: a failed priority prompt inserts the task with Low)
AddTaskMutDefaultPriority(m, used, prompts) ==
    IF prompts.text.some
    THEN {[tm |-> r.tm, issued |-> r.issued] :
            r \in tr_add_task(m, used,
                    Task(prompts.text.val,
                         IF prompts.prio.some THEN prompts.prio.val ELSE Low))}
    ELSE {[tm |-> m, issued |-> used]}
add_task(m, used, prompts) ==
    IF prompts.text.some /\ prompts.prio.some
    THEN {[tm |-> r.tm, issued |-> r.issued] :
            r \in tr_add_task(m, used, Task(prompts.text.val, prompts.prio.val))}
    ELSE {[tm |-> m, issued |-> used]}

\* select_task: the options offered are one iteration order of the store; the
\* prompt returns one of them, or an error (cancelled, or no option to offer)
\* that .ok() turns into None.
select_task(m) ==
    UNION {{None} \cup {Some(all[i]) : i \in 1..Len(all)} : all \in tr_get_all(m)}

\* execute_action, lines 234-248: the deferred removal
\* (faulty variant: clears the pending fields without removing the entry)
PendingMutKeepEntry(m, st) ==
    IF st.action.some /\ st.task.some /\ st.action.val.kind = "Remove"
    THEN [tm |-> m, action |-> None, task |-> None, removed |-> st.task]
    ELSE [tm |-> m, action |-> st.action, task |-> st.task, removed |-> None]
\* (faulty variant: removes the entry and clears the action, not the task)
PendingMutKeepTask(m, st) ==
    IF st.action.some /\ st.task.some /\ st.action.val.kind = "Remove"
    THEN [tm |-> tr_remove_task(m, st.task.val),
          action |-> None, task |-> st.task, removed |-> st.task]
    ELSE [tm |-> m, action |-> st.action, task |-> st.task, removed |-> None]
pending(m, st) ==
    IF st.action.some /\ st.task.some /\ st.action.val.kind = "Remove"
    THEN [tm |-> tr_remove_task(m, st.task.val),
          action |-> None, task |-> None, removed |-> st.task]
    ELSE [tm |-> m, action |-> st.action, task |-> st.task, removed |-> None]

\* execute_action, lines 249-263: the arms of match a. Each gives the
\* outcomes [tm, issued, state, out] of the arm after the deferred removal c.
Outcome(m, used, sc, task, action, out) ==
    [tm |-> m, issued |-> used,
     state |-> [should_continue |-> sc, task |-> task, action |-> action],
     out |-> out]

\* (faulty variant: Quit falls through to the listing)
ArmQuitMutLists(c, used, sc) ==
    {Outcome(c.tm, used, FALSE, c.task, c.action, Some(list_tasks(all))) :
        all \in tr_get_all(c.tm)}
ArmQuit(c, used, sc) ==
    {Outcome(c.tm, used, FALSE, c.task, c.action, None)}

ArmList(c, used, sc) ==
    {Outcome(c.tm, used, sc, c.task, c.action, Some(list_tasks(all))) :
        all \in tr_get_all(c.tm)}

ArmAdd(c, used, sc) ==
    UNION {{Outcome(r.tm, r.issued, sc, c.task, c.action, Some(p)) :
                r \in add_task(c.tm, used, p)} : p \in AddPrompts}

\* (faulty variant: a failed selection falls back to an entry of the store)
ArmRemoveMutFallback(c, used, sc) ==
    {Outcome(c.tm, used, sc,
             IF selected.some \/ DOMAIN c.tm = {} THEN selected
             ELSE Some(CHOOSE kt \in {<<id, c.tm[id]>> : id \in DOMAIN c.tm} : TRUE),
             Some(Remove), Some(selected)) :
        selected \in select_task(c.tm)}
ArmRemove(c, used, sc) ==
    {Outcome(c.tm, used, sc, selected, Some(Remove), Some(selected)) :
        selected \in select_task(c.tm)}

\* (faulty variants of the Unknown arm: one ends the loop, one clears the
\* pending fields)
ArmUnknownMutQuit(c, used, sc) ==
    {Outcome(c.tm, used, FALSE, c.task, c.action, None)}
ArmUnknownMutClear(c, used, sc) ==
    {Outcome(c.tm, used, sc, None, None, None)}
ArmUnknown(c, used, sc) ==
    {Outcome(c.tm, used, sc, c.task, c.action, None)}

\* execute_action: every outcome of one call
\* (faulty variant: List prints the store as it was before the deferred
\* removal)
ExecuteActionMutLateCommit(a, m, used, st) ==
    LET c == pending(m, st)
        sc == st.should_continue
    IN CASE a.kind = "Quit" -> ArmQuit(c, used, sc)
         [] a.kind = "List" ->
                {Outcome(c.tm, used, sc, c.task, c.action, Some(list_tasks(all))) :
                    all \in tr_get_all(m)}
         [] a.kind = "Add" -> ArmAdd(c, used, sc)
         [] a.kind = "Remove" -> ArmRemove(c, used, sc)
         [] a.kind = "Unknown" -> ArmUnknown(c, used, sc)
\* (faulty variant: the Remove arm offers the store as it was before the
\* deferred removal)
ExecuteActionMutStaleOptions(a, m, used, st) ==
    LET c == pending(m, st)
        sc == st.should_continue
    IN CASE a.kind = "Quit" -> ArmQuit(c, used, sc)
         [] a.kind = "List" -> ArmList(c, used, sc)
         [] a.kind = "Add" -> ArmAdd(c, used, sc)
         [] a.kind = "Remove" ->
                {Outcome(c.tm, used, sc, selected, Some(Remove), Some(selected)) :
                    selected \in select_task(m)}
         [] a.kind = "Unknown" -> ArmUnknown(c, used, sc)
execute_action(a, m, used, st) ==
    LET c == pending(m, st)
        sc == st.should_continue
    IN CASE a.kind = "Quit" -> ArmQuit(c, used, sc)
         [] a.kind = "List" -> ArmList(c, used, sc)
         [] a.kind = "Add" -> ArmAdd(c, used, sc)
         [] a.kind = "Remove" -> ArmRemove(c, used, sc)
         [] a.kind = "Unknown" -> ArmUnknown(c, used, sc)

\* ------------------------------------------------------------------ main
NoCycle == [a |-> None]
NoCall == [op |-> "none", adds |-> 0, removes |-> FALSE]

\* curr_state is built after load_tasks (lines 313-317) from constants only;
\* the model holds its value from the start and Start leaves it alone.
Init ==
    /\ pc = "init"
    /\ file \in FileStates
    /\ tm = EmptyMap
    /\ issued = {}
    /\ state = [should_continue |-> TRUE, task |-> None, action |-> None]
    /\ cycle = NoCycle
    /\ call = NoCall

\* main, lines 311-319: load_tasks(&tr)? and clear()?; either can fail and
\* end the program before the loop.
Start ==
    /\ pc = "init"
    /\ \E r \in load_tasks(tm, issued, file) : \E clear_ok \in BOOLEAN :
        /\ tm' = r.tm
        /\ issued' = r.issued
        /\ pc' = IF r.ok /\ clear_ok THEN "loop" ELSE "error"
    /\ UNCHANGED <<file, state, cycle, call>>

\* main, lines 320-323: one pass of the while loop with action a chosen
\* (faulty variant: every cycle also writes the store to the file)
CycleMutSaveEach(a) ==
    /\ pc = "loop"
    /\ a \in display_actions
    /\ \E r \in execute_action(a, tm, issued, state) :
        /\ tm' = r.tm
        /\ issued' = r.issued
        /\ state' = r.state
        /\ cycle' = [a |-> Some(a), removed |-> pending(tm, state).removed, out |-> r.out,
                     first |-> ~cycle.a.some]
        /\ pc' = IF r.state.should_continue THEN "loop" ELSE "exit"
        /\ \E all \in tr_get_all(r.tm) : file' = save_tasks(all)
    /\ UNCHANGED call
Cycle(a) ==
    /\ pc = "loop"
    /\ a \in display_actions
    /\ \E r \in execute_action(a, tm, issued, state) :
        /\ tm' = r.tm
        /\ issued' = r.issued
        /\ state' = r.state
        /\ cycle' = [a |-> Some(a), removed |-> pending(tm, state).removed, out |-> r.out,
                     first |-> ~cycle.a.some]
        /\ pc' = IF r.state.should_continue THEN "loop" ELSE "exit"
    /\ UNCHANGED <<file, call>>

\* The loop runs while curr_state.should_continue; display_actions gives a.
CycleQuit == state.should_continue /\ Cycle(Quit)
CycleList == state.should_continue /\ Cycle(List)
CycleAdd == state.should_continue /\ Cycle(Add)
CycleRemove == state.should_continue /\ Cycle(Remove)
CycleUnknown == state.should_continue /\ \E e \in PromptErrors : Cycle(Unknown(e))

\* main, line 324: save_tasks(&tr)?; fs::write can fail before it has
\* truncated the file, or after it has written part of the text.
Save ==
    /\ pc = "exit"
    /\ \/ \E all \in tr_get_all(tm) : file' = save_tasks(all) /\ pc' = "done"
       \/ file' \in {file, Garbage} /\ pc' = "error"
    /\ UNCHANGED <<tm, issued, state, cycle, call>>

Next ==
    \/ Start
    \/ CycleQuit
    \/ CycleList
    \/ CycleAdd
    \/ CycleRemove
    \/ CycleUnknown
    \/ Save

Spec == Init /\ [][Next]_vars

\* ------------------------------------------- the TaskRepository contract
\* A client that calls the methods of the trait on a MapTaskRepository in any
\* order, with any arguments: MapTaskRepository::new(), then the calls.
InitRepo ==
    /\ pc = "repo"
    /\ file = Missing
    /\ tm = EmptyMap
    /\ issued = {}
    /\ state = [should_continue |-> TRUE, task |-> None, action |-> None]
    /\ cycle = NoCycle
    /\ call = NoCall

RepoAdd ==
    /\ pc = "repo"
    /\ \E t \in Tasks : \E r \in tr_add_task(tm, issued, t) :
        /\ tm' = r.tm
        /\ issued' = issued \cup {r.id}
        /\ call' = [op |-> "add_task", t |-> t, ret |-> r.id,
                    adds |-> call.adds + 1, removes |-> call.removes]
    /\ UNCHANGED <<pc, file, state, cycle>>

RepoGet ==
    /\ pc = "repo"
    /\ \E id \in Ids :
        call' = [op |-> "get_task", id |-> id, ret |-> tr_get_task(tm, id),
                 adds |-> call.adds, removes |-> call.removes]
    /\ UNCHANGED <<pc, file, tm, issued, state, cycle>>

RepoGetAll ==
    /\ pc = "repo"
    /\ \E all \in tr_get_all(tm) :
        call' = [op |-> "get_all", ret |-> all,
                 adds |-> call.adds, removes |-> call.removes]
    /\ UNCHANGED <<pc, file, tm, issued, state, cycle>>

RepoRemove ==
    /\ pc = "repo"
    /\ \E kt \in Ids \X Tasks :
        /\ tm' = tr_remove_task(tm, kt)
        /\ call' = [op |-> "remove_task", kt |-> kt, present |-> tr_get_task(tm, kt[1]).some,
                    adds |-> call.adds, removes |-> TRUE]
    /\ UNCHANGED <<pc, file, issued, state, cycle>>

NextRepo ==
    \/ RepoAdd
    \/ RepoGet
    \/ RepoGetAll
    \/ RepoRemove

SpecRepo == InitRepo /\ [][NextRepo]_vars

\* ================================================================ claims
\* A step of the loop in which the action of kind k was chosen
CycleOf(k) == pc = "loop" /\ cycle'.a.some /\ cycle'.a.val.kind = k
\* Every entry of m other than id is in m2 with the same task
OthersKept(m, m2, id) ==
    \A k \in DOMAIN m \ {id} : k \in DOMAIN m2 /\ m2[k] = m[k]

\* C1: when a cycle starts with a selected task t pending for Remove, that
\* cycle, whatever action is chosen in it, deletes t (and only t) from the
\* store before it dispatches: with Quit, List, Add or Unknown both pending
\* fields are empty afterwards, with Remove a new selection never offers t;
\* and an id that has left the store never comes back.
C1_RemovalCommit ==
    [][ /\ (pc = "loop" /\ state.action = Some(Remove) /\ state.task.some
            /\ tr_get_task(tm, state.task.val[1]).some)
           => LET t == state.task.val
              IN /\ cycle'.a.some
                 /\ cycle'.removed = Some(t)
                 /\ tr_get_task(tm', t[1]) = None
                 /\ OthersKept(tm, tm', t[1])
                 /\ cycle'.a.val.kind # "Remove"
                      => state'.task = None /\ state'.action = None
                 /\ cycle'.a.val.kind = "Remove"
                      => /\ state'.action = Some(Remove)
                         /\ state'.task.some => state'.task.val[1] # t[1]
        /\ \A id \in issued \ DOMAIN tm : tr_get_task(tm', id) = None
      ]_vars

\* C1 witness: a Remove cycle that first committed the pending removal and
\* then recorded a new selection
C1_Witness ==
    /\ cycle.a = Some(Remove)
    /\ cycle.removed.some
    /\ tr_get_task(tm, cycle.removed.val[1]) = None
    /\ state.task.some

\* C2: a pending Remove action is cleared by the end of the next cycle: an
\* action field that holds Remove when a cycle starts is empty when the
\* cycle ends, unless that cycle chose Remove again.
C2_PendingActionResolved ==
    [][ (pc = "loop" /\ state.action = Some(Remove) /\ cycle'.a.some
         /\ cycle'.a.val.kind # "Remove")
           => state'.action = None ]_vars

\* C3 as claimed: for every store content the loop can end with, the empty
\* store included, and every order save_tasks can write it in, load_tasks of
\* the written file into a fresh store succeeds and gives the multiset of
\* (name, priority) pairs that was saved.
C3_RoundTripAnyStore ==
    pc = "done" =>
        /\ load_tasks(EmptyMap, {}, file) # {}
        /\ \A r \in load_tasks(EmptyMap, {}, file) :
            r.ok /\ MapToBag(r.tm) = MapToBag(tm)

\* C3 amended: for every non-empty store content the loop can end with
\* (duplicates included) and every order save_tasks can write it in,
\* load_tasks of the written file into a fresh store succeeds and gives the
\* multiset of (name, priority) pairs that was saved; for the empty store the
\* load gives the two default tasks.
C3_RoundTrip ==
    pc = "done" =>
        /\ load_tasks(EmptyMap, {}, file) # {}
        /\ \A r \in load_tasks(EmptyMap, {}, file) :
            /\ r.ok
            /\ MapToBag(r.tm) =
                 IF DOMAIN tm = {} THEN SeqToBag(DefaultTasks) ELSE MapToBag(tm)

\* C3 witness: the file was written from a store that holds the same
\* (name, priority) pair twice
C3_Witness ==
    /\ pc = "done"
    /\ \E i, j \in DOMAIN tm : i # j /\ tm[i] = tm[j]

\* C4: add_task inserts under an identifier that the store has never returned
\* before (also after removals), adds exactly that entry and changes no other;
\* while no remove_task was called, what get_all returns after n calls of
\* add_task has n entries with pairwise distinct identifiers.
C4_FreshIds ==
    [][ /\ call'.op = "add_task"
           => LET id == call'.ret
              IN /\ id \notin issued
                 /\ tr_get_task(tm, id) = None
                 /\ DOMAIN tm' = DOMAIN tm \cup {id}
                 /\ tr_get_task(tm', id) = Some(call'.t)
                 /\ OthersKept(tm, tm', id)
                 /\ Cardinality(DOMAIN tm') = Cardinality(DOMAIN tm) + 1
        /\ (call'.op = "get_all" /\ ~call'.removes)
           => LET all == call'.ret
              IN /\ Len(all) = call'.adds
                 /\ \A i, j \in 1..Len(all) : i # j => all[i][1] # all[j][1]
      ]_vars

\* C4 witness: an add_task after a removal, into a store that still holds
\* another task
C4_Witness ==
    /\ call.op = "add_task"
    /\ call.removes
    /\ issued \ DOMAIN tm # {}
    /\ Cardinality(DOMAIN tm) >= 2

\* C5: remove_task of a KeyedTask whose id is in the store leaves get_task of
\* that id absent and every other id with the task it had.
C5_RemovePresent ==
    [][ (call'.op = "remove_task" /\ tr_get_task(tm, call'.kt[1]).some)
           => /\ tr_get_task(tm', call'.kt[1]) = None
              /\ \A id \in Ids \ {call'.kt[1]} :
                    tr_get_task(tm', id) = tr_get_task(tm, id)
      ]_vars

\* C5 witness: a present id was removed and the store still holds a task with
\* the same name and priority under another id
C5_Witness ==
    /\ call.op = "remove_task"
    /\ call.present
    /\ tr_get_task(tm, call.kt[1]) = None
    /\ \E id \in DOMAIN tm : tm[id] = call.kt[2]

\* C6: remove_task of a KeyedTask whose id is not in the store (never issued,
\* or removed before) changes nothing in the store.
C6_RemoveAbsent ==
    [][ (call'.op = "remove_task" /\ tr_get_task(tm, call'.kt[1]) = None)
           => /\ tm' = tm
              /\ Cardinality(DOMAIN tm') = Cardinality(DOMAIN tm)
      ]_vars

\* C6 witness: a second remove_task of an id that was removed before, on a
\* store that is not empty
C6_Witness ==
    /\ call.op = "remove_task"
    /\ ~call.present
    /\ call.kt[1] \in issued
    /\ DOMAIN tm # {}

\* C7: the tasks that a List cycle prints are exactly the tasks of the store
\* (as a multiset), with no Medium or Low task before a High one and no Low
\* task before a Medium one.
C7_ListSorted ==
    (cycle.a = Some(List)) =>
        LET printed == cycle.out.val
        IN /\ SeqToBag(printed) = MapToBag(tm)
           /\ Len(printed) = Cardinality(DOMAIN tm)
           /\ \A i, j \in 1..Len(printed) :
                (\/ printed[i].priority = High /\ printed[j].priority \in {Medium, Low}
                 \/ printed[i].priority = Medium /\ printed[j].priority = Low)
                => i < j

\* C7 witness: a List cycle that printed a High, a Medium and a Low task
C7_Witness ==
    /\ cycle.a = Some(List)
    /\ {cycle.out.val[i].priority : i \in 1..Len(cycle.out.val)} = {High, Medium, Low}

\* C8: the loop state starts as (should_continue = true, no task, no action);
\* should_continue turns false only in a cycle that chose Quit, which ends the
\* loop; a cycle that chose anything else, whatever its prompts returned,
\* leaves should_continue true and the loop running; once should_continue is
\* false no cycle runs.
C8_OnlyQuitEnds ==
    [][ /\ pc = "init"
           => state = [should_continue |-> TRUE, task |-> None, action |-> None]
              /\ state' = state
        /\ (state.should_continue /\ ~state'.should_continue)
           => pc = "loop" /\ cycle'.a = Some(Quit) /\ pc' = "exit"
        /\ CycleOf("Quit") => ~state'.should_continue /\ pc' = "exit"
        /\ (\E k \in {"List", "Add", "Remove", "Unknown"} : CycleOf(k))
           => state'.should_continue /\ pc' = "loop"
        /\ ~state.should_continue
           => cycle' = cycle /\ tm' = tm /\ state' = state /\ pc' \in {"done", "error"}
      ]_vars

\* C8 witness: the program has ended after a Quit cycle
C8_Witness ==
    /\ pc = "done"
    /\ ~state.should_continue
    /\ cycle.a = Some(Quit)

\* C9 as claimed: a cycle that chose Unknown changes neither the store nor the
\* loop state, also when it starts with a Remove selection pending.
C9_UnknownChangesNothing ==
    [][ CycleOf("Unknown") => tm' = tm /\ state' = state ]_vars

\* C9 amended: a cycle that chose Unknown changes nothing but what the
\* removal commit at its start changes: should_continue is kept and no Uuid is
\* issued; when it starts with no (Remove, task) pair pending the store and the
\* loop state are the same afterwards; when it starts with such a pair pending,
\* exactly the pending task is deleted and both pending fields are cleared.
C9_UnknownOnlyCommits ==
    [][ CycleOf("Unknown")
           => /\ state'.should_continue = state.should_continue
              /\ issued' = issued
              /\ IF state.action = Some(Remove) /\ state.task.some
                 THEN /\ DOMAIN tm' = DOMAIN tm \ {state.task.val[1]}
                      /\ OthersKept(tm, tm', state.task.val[1])
                      /\ state'.task = None
                      /\ state'.action = None
                 ELSE tm' = tm /\ state' = state
      ]_vars

\* C9 witness: an Unknown cycle that ran with a stale Remove action (its
\* selection was cancelled) and left it in place
C9_Witness ==
    /\ cycle.a.some
    /\ cycle.a.val.kind = "Unknown"
    /\ ~cycle.removed.some
    /\ state.action = Some(Remove)
    /\ state.task = None

\* C10: an Add cycle whose name prompt or priority prompt fails adds no entry;
\* one whose prompts both succeed adds exactly one entry, under a new id, with
\* the name entered (the empty name included) and the priority chosen. Apart
\* from the task the removal commit deletes, the other entries are kept.
C10_AddInsertsOnSuccessOnly ==
    [][ CycleOf("Add")
           => LET p == cycle'.out.val
                  base == IF cycle'.removed.some
                          THEN DOMAIN tm \ {cycle'.removed.val[1]}
                          ELSE DOMAIN tm
              IN /\ \A k \in base : k \in DOMAIN tm' /\ tm'[k] = tm[k]
                 /\ IF p.text.some /\ p.prio.some
                    THEN \E id \in Ids \ issued :
                            /\ DOMAIN tm' = base \cup {id}
                            /\ tm'[id] = [name |-> p.text.val, priority |-> p.prio.val]
                    ELSE DOMAIN tm' = base /\ issued' = issued
      ]_vars

\* C10 witness: an Add cycle with the empty name entered and a priority chosen
C10_Witness ==
    /\ cycle.a = Some(Add)
    /\ cycle.out.val.text = Some("")
    /\ cycle.out.val.prio.some
    /\ \E id \in DOMAIN tm : tm[id] = [name |-> "", priority |-> cycle.out.val.prio.val]

\* C11: a Remove cycle whose selection is cancelled or fails leaves no pending
\* task; with an empty store the selection always fails; and a cycle that
\* starts with no pending task, also one that still carries the Remove action
\* of a failed selection, deletes no entry from the store.
C11_FailedSelectionRemovesNothing ==
    [][ /\ (CycleOf("Remove") /\ cycle'.out.val = None) => state'.task = None
        /\ (CycleOf("Remove") /\ DOMAIN tm' = {}) => cycle'.out.val = None
        /\ (pc = "loop" /\ state.task = None)
           => /\ cycle'.removed = None
              /\ \A id \in DOMAIN tm : tr_get_task(tm', id) = tr_get_task(tm, id)
      ]_vars

\* C11 witness: a List cycle that ran with the Remove action of a failed
\* selection still recorded, and removed nothing
C11_Witness ==
    /\ cycle.a = Some(List)
    /\ cycle.removed = None
    /\ state.action = Some(Remove)
    /\ state.task = None
    /\ DOMAIN tm # {}

\* C12: the file is written only by the save_tasks call after the loop has
\* ended: Start and the cycles leave it as it was at startup; once the loop
\* has ended the only step is the save, which writes the store's tasks or
\* fails; after that the program has ended.
C12_SavedOnlyAtShutdown ==
    [][ /\ pc \in {"init", "loop"} => file' = file
        /\ pc = "exit" => pc' \in {"done", "error"}
        /\ pc' = "done"
           => /\ pc = "exit"
              /\ \E all \in tr_get_all(tm) :
                    file' = JsonArray([i \in 1..Len(all) |->
                                [name |-> all[i][2].name,
                                 priority |-> PriorityToJson(all[i][2].priority)]])
        /\ pc \notin {"done", "error"}
      ]_vars

\* C12 witness: the file written at shutdown holds a task added in the session
C12_Witness ==
    /\ pc = "done"
    /\ file.kind = "Array"
    /\ \E i \in 1..Len(file.items) : file.items[i].name = ""

\* The tasks of a JSON array as a bag of (name, priority) values
JsonToBag(f) == SeqToBag([i \in 1..Len(f.items) |-> TaskFromJson(f.items[i]).val])

\* C13: when the first action chosen is Quit, that cycle shows no list, issues
\* no Uuid, removes nothing and leaves the store as load_tasks left it: the
\* tasks of the startup file when it held a non-empty array, the two default
\* tasks when it was missing, unreadable or an empty array; and the array
\* save_tasks then writes holds the same multiset of (name, priority) pairs.
C13_QuitFirst ==
    [][ /\ (cycle = NoCycle /\ CycleOf("Quit"))
           => /\ cycle'.first
              /\ cycle'.out = None
              /\ cycle'.removed = None
              /\ tm' = tm
              /\ issued' = issued
              /\ issued = DOMAIN tm
        /\ (pc = "exit" /\ pc' = "done" /\ cycle.first)
           => /\ MapToBag(tm) =
                    IF file.kind = "Array" /\ Len(file.items) > 0
                    THEN JsonToBag(file) ELSE SeqToBag(DefaultTasks)
              /\ file'.kind = "Array"
              /\ JsonToBag(file') = MapToBag(tm)
      ]_vars

\* C13 witness: Quit was the first action and the file that held two tasks at
\* startup has been written again
C13_Witness ==
    /\ pc = "done"
    /\ cycle.a = Some(Quit)
    /\ cycle.first
    /\ Len(file.items) = 2
    /\ file.items[1].name = "Buy milk"

\* The file holds text that is no array of tasks
Malformed(f) ==
    \/ f.kind = "Garbage"
    \/ f.kind = "Array"
       /\ \E i \in 1..Len(f.items) : f.items[i].priority \notin {"High", "Medium", "Low"}

\* C14: load_tasks on the empty store of a starting program: with the file
\* missing, unreadable or holding an empty array it returns Ok and the store
\* holds exactly the two default tasks; with a non-empty array of tasks it
\* returns Ok and the store holds one entry per task of the array, in
\* multiplicity, and no default task.
C14_LoadSeedsDefaults ==
    [][ (pc = "init" /\ ~Malformed(file))
           => /\ \A r \in load_tasks(tm, issued, file) : r.ok
              /\ DOMAIN tm = {}
              /\ IF file.kind = "Array" /\ Len(file.items) > 0
                 THEN /\ Cardinality(DOMAIN tm') = Len(file.items)
                      /\ MapToBag(tm') = JsonToBag(file)
                      /\ \A id \in DOMAIN tm' :
                            tm'[id].name \notin {"Learn Rust", "Learn NeoVim"}
                 ELSE /\ Cardinality(DOMAIN tm') = 2
                      /\ \E i, j \in DOMAIN tm' :
                            /\ tm'[i] = [name |-> "Learn Rust", priority |-> High]
                            /\ tm'[j] = [name |-> "Learn NeoVim", priority |-> Medium]
      ]_vars

\* C14 witness: the program has started on a file that holds an empty array
\* and the store holds two tasks
C14_Witness ==
    /\ pc = "loop"
    /\ cycle = NoCycle
    /\ file = JsonArray(<<>>)
    /\ Cardinality(DOMAIN tm) = 2

\* C15: with a readable file whose content is malformed, load_tasks returns
\* an error and main ends before the loop: the step leaves the file and the
\* store as they were, no cycle has run, and the ended program takes no
\* further step (no prompt, no save).
C15_MalformedIsFatal ==
    [][ /\ (pc = "init" /\ Malformed(file))
           => /\ \A r \in load_tasks(tm, issued, file) : ~r.ok
              /\ pc' = "error"
              /\ file' = file
              /\ tm' = tm
              /\ cycle' = NoCycle
        /\ pc # "error"
      ]_vars

\* C15 witness: the program has ended on an array with an unknown priority,
\* before any cycle, with the file as it was
C15_Witness ==
    /\ pc = "error"
    /\ cycle = NoCycle
    /\ file.kind = "Array"
    /\ \E i \in 1..Len(file.items) : file.items[i].priority = "Urgent"
    /\ DOMAIN tm = {}

\* C16: no step of the program changes the name or the priority stored under
\* an id, and an entry leaves the store only in a cycle that started with that
\* entry's id as the pending task of a pending Remove (the removal commit),
\* whatever action that cycle chose.
C16_TasksImmutable ==
    [][ \A id \in DOMAIN tm :
            IF id \in DOMAIN tm'
            THEN tm'[id] = tm[id]
            ELSE /\ pc = "loop"
                 /\ state.action = Some(Remove)
                 /\ state.task.some
                 /\ state.task.val[1] = id
                 /\ cycle'.removed = Some(<<id, tm[id]>>)
      ]_vars

\* C16 witness: an Add cycle that committed a removal and added a task while
\* another task stayed in the store
C16_Witness ==
    /\ cycle.a = Some(Add)
    /\ cycle.removed.some
    /\ cycle.out.val.prio.some
    /\ Cardinality(DOMAIN tm) >= 2

\* The loop C17 compares with: one cycle of a loop that deletes the selected
\* task inside the Remove cycle and carries no pending fields. s is its
\* store; the outcomes are [tm, issued, should_continue, out].
SyncOutcome(s, used, sc, out) ==
    [tm |-> s, issued |-> used, should_continue |-> sc, out |-> out]
SyncCycle(a, s, used, sc) ==
    CASE a.kind = "Quit" -> {SyncOutcome(s, used, FALSE, None)}
      [] a.kind = "List" ->
            {SyncOutcome(s, used, sc, Some(list_tasks(all))) : all \in tr_get_all(s)}
      [] a.kind = "Add" ->
            UNION {{SyncOutcome(r.tm, r.issued, sc, Some(p)) :
                        r \in add_task(s, used, p)} : p \in AddPrompts}
      [] a.kind = "Remove" ->
            {SyncOutcome(IF selected.some
                         THEN [id \in DOMAIN s \ {selected.val[1]} |-> s[id]]
                         ELSE s,
                         used, sc, Some(selected)) :
                selected \in select_task(s)}
      [] a.kind = "Unknown" -> {SyncOutcome(s, used, sc, None)}

\* The store of the synchronous loop that corresponds to a state of the
\* program: the store without the task whose removal is pending.
SyncStore(m, st) ==
    IF st.action = Some(Remove) /\ st.task.some
    THEN [id \in DOMAIN m \ {st.task.val[1]} |-> m[id]]
    ELSE m
AsSync(r) ==
    SyncOutcome(SyncStore(r.tm, r.state), r.issued, r.state.should_continue, r.out)

\* C17: seen through SyncStore the program is the synchronous loop. The loop
\* starts with the same store; at every cycle boundary and for every action
\* the menu can return, the outcomes of execute_action (what List prints,
\* what the selection returns, what Add is given, the store and the loop flag
\* afterwards) are exactly the outcomes of the synchronous cycle; a Remove
\* cycle offers the entries of the synchronous store; and the file written
\* at shutdown is the save of the synchronous store.
C17_SyncEquivalent ==
    /\ (pc = "loop" /\ cycle = NoCycle) => SyncStore(tm, state) = tm
    /\ pc = "loop"
       => LET S == SyncStore(tm, state)
          IN \A a \in display_actions :
                LET outcomes == execute_action(a, tm, issued, state)
                IN /\ {AsSync(r) : r \in outcomes}
                          = SyncCycle(a, S, issued, state.should_continue)
                   /\ a.kind = "Remove" => \A r \in outcomes : r.tm = S
    /\ pc = "exit" => SyncStore(tm, state) = tm
    /\ pc = "done"
       => \E all \in tr_get_all(SyncStore(tm, state)) : file = save_tasks(all)

\* C17 witness: a List cycle that committed a pending removal and printed
\* the tasks that were left
C17_Witness ==
    /\ cycle.a = Some(List)
    /\ cycle.removed.some
    /\ Len(cycle.out.val) > 0

\* C18: the pending action is absent or Remove, a pending task is present only
\* with the pending action Remove, and once the loop has ended no task is
\* pending.
C18_PendingShape ==
    /\ state.action \in {None, Some(Remove)}
    /\ state.task.some => state.action = Some(Remove)
    /\ state.task.some => state.task.val \in Ids \X [name : STRING, priority : Priority]
    /\ (pc \in {"exit", "done", "error"} \/ ~state.should_continue) => state.task = None

\* C18 witness: the loop has ended with a Quit cycle that committed the
\* pending removal
C18_Witness ==
    /\ pc = "exit"
    /\ cycle.a = Some(Quit)
    /\ cycle.removed.some
    /\ state.task = None

\* C19: a pending task is an entry of the store, under its id and with its
\* name and priority; so the removal commit of a cycle deletes an entry that
\* was there, and the store after the commit has one entry less.
C19_PendingTaskInStore ==
    [][ /\ state'.task.some
           => tr_get_task(tm', state'.task.val[1]) = Some(state'.task.val[2])
        /\ (pc = "loop" /\ cycle'.a.some /\ cycle'.removed.some)
           => LET kt == cycle'.removed.val
                  after == [id \in DOMAIN tm \ {kt[1]} |-> tm[id]]
              IN /\ tr_get_task(tm, kt[1]) = Some(kt[2])
                 /\ Cardinality(DOMAIN after) = Cardinality(DOMAIN tm) - 1
                 /\ tr_get_task(tm', kt[1]) = None
                 /\ \A id \in DOMAIN after : tr_get_task(tm', id) = Some(after[id])
      ]_vars

\* C19 witness: an Unknown cycle committed the removal of the one task that
\* has left the store
C19_Witness ==
    /\ cycle.a.some
    /\ cycle.a.val.kind = "Unknown"
    /\ cycle.removed.some
    /\ issued \ DOMAIN tm = {cycle.removed.val[1]}
    /\ DOMAIN tm # {}

====
